---- MODULE Spec2Model ----
(***************************************************************************)
(* Model of the DroneGuard control plane (backend/server.js and its two    *)
(* controllers): the camera registry with its out-of-band termination      *)
(* signal, and the alert ingestion pipeline with its socket broadcast.     *)
(*                                                                         *)
(* Every request handler is an async function: it is modelled as one       *)
(* action per stretch of code between two awaits.  The store operation or  *)
(* HTTP call awaited takes effect in one action, the code after the await  *)
(* (up to the next await or the response) runs in the next one, and the    *)
(* steps of different requests interleave freely, as they do on the event  *)
(* loop.  A handler that does nothing before its first store call but read *)
(* the request is received and has that call run in one action: the order  *)
(* in which requests arrive is not otherwise observable.                   *)
(*                                                                         *)
(* Each request keeps a record of what its handler did (the document it    *)
(* got from the store, the calls it made, its response), which is what the *)
(* properties below are stated over.                                       *)
(*                                                                         *)
(* The environment is the store, the detection service and the clients.    *)
(* A run is either one where every store operation succeeds and every :id  *)
(* is an ObjectId, or one (faulty) where store operations may fail and an  *)
(* :id may be malformed.                                                   *)
(***************************************************************************)
EXTENDS Integers, Sequences, FiniteSets

VARIABLES
    cameras,    \* the Camera collection: _id -> document
    writer,     \* per camera: the request whose write the document is (0: none)
    alerts,     \* the Report collection: _id -> document
    nextId,     \* the next ObjectId a new document is given
    now,        \* the last value Date.now() returned
    alive,      \* the node process is running
    faulty,     \* this run has store failures and ids that are no ObjectId
    camReqs,    \* camera requests received, in order of arrival
    alertReqs,  \* report requests received, in order of arrival
    connected,  \* sockets connected to io
    inbox,      \* per socket: the events delivered to it, in order
    published,  \* every io.emit made, in order
    read,       \* per socket: how many of its events the client has handled
    hook        \* the useReports hook of the client on socket HookSocket

vars == <<cameras, writer, alerts, nextId, now, alive, faulty, camReqs,
          alertReqs, connected, inbox, published, read, hook>>

camVars == <<cameras, writer, camReqs>>
alertVars == <<alerts, alertReqs, connected, inbox, published, read, hook>>

----------------------------------------------------------------------------
(* Bounds *)

\* requests received by each of the two controllers
MaxReq == 2
\* sockets that may connect
MaxObs == 1
\* discovery scans in one run of the scan specification
MaxScans == 1

----------------------------------------------------------------------------
(* Values *)

\* a key the JSON body does not hold (undefined)
Absent == "<undefined>"
\* a stored null
Null == "<null>"

\* ObjectIds are the positive numbers; an :id of 0 stands for a string that is
\* no ObjectId, which the store's lookups reject with a CastError
WellFormed(id) == id > 0

States == {"Stopped", "Active"}

\* axios options of the two /terminate calls: timeout in ms, 0 = none
UpdateTimeout == 1000
DeleteTimeout == 0

NoResp == [code |-> 0, tag |-> "none", docs |-> <<>>, msg |-> ""]
Resp(code, tag, docs, msg) == [code |-> code, tag |-> tag, docs |-> docs, msg |-> msg]

Url == "http://10.0.0.5:8080/video"

Body(name, location, streamUrl, status) ==
    [name |-> name, location |-> location, streamUrl |-> streamUrl, status |-> status]

\* request bodies of POST /api/cameras
AddBodies ==
    { Body("Cam-1", Absent, Url, Absent),
      Body("Cam-2", "Gate", Url, "Active"),
      Body("Cam-1", Absent, Url, "Paused"),
      Body("", "Gate", Url, "Stopped"),
      Body("Cam-2", Absent, Absent, Absent) }

\* the status key of the body of PATCH /api/cameras/:id/status: any string,
\* 'Paused' standing for those that name no state
StatusInputs == {"Stopped", "Active", "Paused"}

\* the :id of a status or delete request: the ObjectId of a camera that is,
\* was or never was in the store, or (0) no ObjectId
TargetIds == IF faulty THEN {0, 1, 2} ELSE {1, 2}

\* whether a store operation succeeds: the store may be unreachable or
\* reject the operation
StoreOutcomes == IF faulty THEN BOOLEAN ELSE {TRUE}

----------------------------------------------------------------------------
(* models/Camera.js *)

\* mongoose's `required: true` on a String path: undefined, null and the
\* empty string all fail
Required(v) == v # Absent /\ v # Null /\ v # ""

\* (mutant) the default of the status path is 'Active'
CameraDocDefaultActive(body, id, t) ==
    [id |-> id,
     name |-> body.name,
     location |-> body.location,
     streamUrl |-> body.streamUrl,
     status |-> IF body.status = Absent THEN "Active" ELSE body.status,
     addedAt |-> t]

\* new Camera(req.body): the paths of the schema are taken from the body,
\* addedAt among them, and the schema's defaults fill those it leaves out
CameraDoc(body, id, t) ==
    [id |-> id,
     name |-> body.name,
     location |-> body.location,
     streamUrl |-> body.streamUrl,
     status |-> IF body.status = Absent THEN "Stopped" ELSE body.status,
     addedAt |-> IF "addedAt" \in DOMAIN body THEN body.addedAt ELSE t]

\* (mutant) streamUrl is not required
CameraValidNameOnly(doc) == Required(doc.name)

\* the validation newCam.save() runs before it inserts
CameraValid(doc) == Required(doc.name) /\ Required(doc.streamUrl)

\* (mutant) the update replaces the document instead of setting one path
UpdatedDocOverwrite(doc, status) ==
    [doc EXCEPT !.status = status, !.location = Absent]

\* (mutant) a transition guard: a stopped camera stays stopped
UpdatedDocGuarded(doc, status) ==
    IF doc.status = "Stopped" THEN doc ELSE [doc EXCEPT !.status = status]

\* findByIdAndUpdate(id, { status }, { new: true }) on a found document: the
\* schema has no enum and update validators are off, so any string is stored
UpdatedDoc(doc, status) == [doc EXCEPT !.status = status]

\* (mutant) the update is an upsert: a document is made for the id
UpdateOfMissingUpsert(cams, id, status) ==
    [k \in (DOMAIN cams) \cup {id} |->
        IF k = id
           THEN [id |-> id, name |-> Absent, location |-> Absent,
                 streamUrl |-> Absent, status |-> status, addedAt |-> 0]
           ELSE cams[k]]

\* findByIdAndUpdate(id, { status }, { new: true }) when no document has the
\* id: without upsert the collection stays as it is (and null is returned)
UpdateOfMissing(cams, id, status) == cams

\* (mutant) the delete matches nothing
RemoveNothing(cams, id) == cams

\* findByIdAndDelete(id)
RemoveById(cams, id) == [k \in (DOMAIN cams) \ {id} |-> cams[k]]

\* (mutant) the collection keeps two documents: an insert drops the oldest
InsertDocEvicting(coll, doc) ==
    LET kept == IF Cardinality(DOMAIN coll) < 2 THEN DOMAIN coll
                ELSE (DOMAIN coll) \ {CHOOSE k \in DOMAIN coll : \A o \in DOMAIN coll : k <= o} IN
    [k \in kept \cup {doc.id} |-> IF k = doc.id THEN doc ELSE coll[k]]

\* save() of a new document: an insert under its _id
InsertDoc(coll, doc) ==
    [k \in (DOMAIN coll) \cup {doc.id} |-> IF k = doc.id THEN doc ELSE coll[k]]

----------------------------------------------------------------------------
(* The store when the process starts: what earlier runs persisted *)

NoCameras == [k \in {} |-> 0]

InitStores ==
    { NoCameras,
      InsertDoc(NoCameras, CameraDoc(Body("Cam-1", Absent, Url, Absent), 1, 0)),
      InsertDoc(InsertDoc(NoCameras,
                          CameraDoc(Body("Cam-2", "Gate", Url, "Active"), 1, 0)),
                CameraDoc(Body("Cam-1", Absent, Url, Absent), 2, 0)) }

----------------------------------------------------------------------------
(* controllers/cameraController.js *)

CamReq(kind, id, body, pc) ==
    [kind |-> kind, id |-> id, body |-> body, pc |-> pc,
     doc |-> <<>>,          \* the document the handler holds (<<>> is null)
     prev |-> <<>>,         \* the stored document its update replaced
     over |-> 0,            \* the request whose write its update replaced
     nwrites |-> 0,         \* store writes it has made
     sig |-> "none",        \* what becomes of its POST /terminate
     nsig |-> 0,            \* POST /terminate calls it has made
     sigName |-> Absent,    \* the cameraName the call carried
     subnet |-> Absent,     \* the subnet its scan probes
     probes |-> <<>>,       \* the promises of its scan's probes
     builtAt |-> 0,         \* when its document was constructed
     resp |-> NoResp]

Receiving(reqs) == alive /\ Len(reqs) < MaxReq

\* the outcomes of POST http://127.0.0.1:5000/terminate: a 2xx answer, a
\* refused connection or non-2xx answer, or no answer at all
SignalOutcomes == {"ok", "fail", "hang"}

\* the promise axios.post returned is settled: answered, failed, or timed
\* out.  With no timeout and no answer it never is, and the handler awaiting
\* it stays where it is ("hung").
AxiosSettled(sig, timeout) == sig \in {"ok", "fail"} \/ timeout > 0
AxiosRejected(sig, timeout) == sig = "fail" \/ (sig = "hang" /\ timeout > 0)

SignalTimeout(kind) == IF kind = "update" THEN UpdateTimeout ELSE DeleteTimeout

\* (mutant) every status but 'Active' signals
SendsSignalUnlessActive(status) == status # "Active"

\* (mutant) the signal is sent whatever the status
SendsSignalAlways(status) == TRUE

\* updateStatus, line 73
SendsSignal(status) == status = "Stopped"

\* the correlation key, { cameraName: camera.name }
SignalKey(doc) == doc.name

\* the request r with its POST /terminate made
Signalled(r) ==
    [r EXCEPT !.pc = "awaitSignal",
              !.nsig = r.nsig + 1,
              !.sigName = SignalKey(r.doc[1])]

WriterAfterInsert(w, id, i) ==
    [k \in (DOMAIN w) \cup {id} |-> IF k = id THEN i ELSE w[k]]

\* POST /api/cameras: new Camera(req.body), then save() is called
AddCamera(body) ==
    /\ Receiving(camReqs)
    /\ \E t \in {now, now + 1} :
         /\ now' = t
         /\ camReqs' = Append(camReqs,
               [CamReq("add", nextId, body, "save")
                  EXCEPT !.doc = <<CameraDoc(body, nextId, t)>>,
                         !.builtAt = t])
    /\ nextId' = nextId + 1
    /\ UNCHANGED <<faulty, cameras, writer, alive, alertVars>>

\* addCamera line 27 and line 28
AddCameraResp(doc, saved) ==
    IF saved THEN Resp(200, "doc", <<doc>>, "") ELSE Resp(500, "err", <<>>, "")

\* addCamera lines 26-28: save() validates and inserts, then the response
AddCameraSave(i) ==
    /\ alive
    /\ camReqs[i].kind = "add" /\ camReqs[i].pc = "save"
    /\ LET doc == camReqs[i].doc[1] IN
       \E storeOk \in StoreOutcomes :
         IF CameraValid(doc) /\ storeOk
            THEN /\ cameras' = InsertDoc(cameras, doc)
                 /\ writer' = WriterAfterInsert(writer, doc.id, i)
                 /\ camReqs' = [camReqs EXCEPT ![i].pc = "done",
                                               ![i].nwrites = 1,
                                               ![i].resp = AddCameraResp(doc, TRUE)]
            ELSE /\ UNCHANGED <<cameras, writer>>
                 /\ camReqs' = [camReqs EXCEPT ![i].pc = "done",
                                               ![i].resp = AddCameraResp(doc, FALSE)]
    /\ UNCHANGED <<faulty, nextId, now, alive, alertVars>>

\* PATCH /api/cameras/:id/status, lines 70-72: the request is received and
\* its findByIdAndUpdate runs at the store (the handler does nothing else
\* before it).  A CastError or a store failure goes to the catch of line 85.
UpdateStatus(id, status) ==
    /\ Receiving(camReqs)
    /\ LET i == Len(camReqs) + 1
           r == CamReq("update", id, Body(Absent, Absent, Absent, status), "afterWrite") IN
       \E storeOk \in StoreOutcomes :
         IF ~storeOk \/ ~WellFormed(id)
            THEN /\ UNCHANGED <<cameras, writer>>
                 /\ camReqs' = Append(camReqs,
                       [r EXCEPT !.pc = "done", !.resp = Resp(500, "err", <<>>, "")])
            ELSE IF id \notin DOMAIN cameras
            THEN /\ cameras' = UpdateOfMissing(cameras, id, status)
                 /\ writer' = [k \in DOMAIN cameras' |->
                                  IF k \in DOMAIN writer THEN writer[k] ELSE i]
                 /\ camReqs' = Append(camReqs, r)
            ELSE LET new == UpdatedDoc(cameras[id], status) IN
                 /\ cameras' = [cameras EXCEPT ![id] = new]
                 /\ writer' = [writer EXCEPT ![id] = i]
                 /\ camReqs' = Append(camReqs,
                       [r EXCEPT !.doc = <<new>>,
                                 !.prev = <<cameras[id]>>,
                                 !.over = writer[id],
                                 !.nwrites = 1])
    /\ UNCHANGED <<faulty, nextId, now, alive, alertVars>>

\* (mutant) no inner try: a failed signal reaches the catch of line 85
UpdateStatusRespThrows(doc, rejected) ==
    IF rejected THEN Resp(500, "err", <<>>, "")
    ELSE IF doc = <<>> THEN Resp(200, "null", <<>>, "") ELSE Resp(200, "doc", doc, "")

\* the response of updateStatus once the signal is settled or skipped
\* (line 84): the catch of line 80 has swallowed any failure of the signal
UpdateStatusResp(doc, rejected) ==
    IF doc = <<>> THEN Resp(200, "null", <<>>, "") ELSE Resp(200, "doc", doc, "")

\* lines 73-84 after the update: the signal is sent, or the response
UpdateStatusSignal(i) ==
    /\ alive
    /\ camReqs[i].kind = "update" /\ camReqs[i].pc = "afterWrite"
    /\ LET r == camReqs[i] IN
       IF SendsSignal(r.body.status) /\ r.doc # <<>>
          THEN camReqs' = [camReqs EXCEPT ![i] = Signalled(r)]
          \* the status is not 'Stopped'; or camera is null, reading
          \* camera.name throws inside the inner try and no request is made
          ELSE camReqs' = [camReqs EXCEPT ![i].pc = "done",
                                          ![i].resp = UpdateStatusResp(r.doc, FALSE)]
    /\ UNCHANGED <<faulty, cameras, writer, nextId, now, alive, alertVars>>

\* lines 80-84: the detection service answers, fails or stays silent; once
\* the call is settled the response is sent
UpdateStatusRespond(i) ==
    /\ alive
    /\ camReqs[i].kind = "update" /\ camReqs[i].pc = "awaitSignal"
    /\ \E sig \in SignalOutcomes :
         IF AxiosSettled(sig, SignalTimeout("update"))
            THEN camReqs' = [camReqs EXCEPT ![i].pc = "done",
                     ![i].sig = sig,
                     ![i].resp = UpdateStatusResp(camReqs[i].doc,
                                    AxiosRejected(sig, SignalTimeout("update")))]
            ELSE camReqs' = [camReqs EXCEPT ![i].pc = "hung", ![i].sig = sig]
    /\ UNCHANGED <<faulty, cameras, writer, nextId, now, alive, alertVars>>

\* DELETE /api/cameras/:id, line 91: the request is received and its
\* findById runs at the store.  Nothing catches its rejection: express 4
\* then sends no response; node 15 and later ends the process on the
\* unhandled rejection, earlier versions only warn.
DeleteCamera(id) ==
    /\ Receiving(camReqs)
    /\ LET r == CamReq("delete", id, Body(Absent, Absent, Absent, Absent), "afterFind") IN
       \E storeOk \in StoreOutcomes :
         IF ~storeOk \/ ~WellFormed(id)
            THEN /\ camReqs' = Append(camReqs, [r EXCEPT !.pc = "unanswered"])
                 /\ alive' \in {alive, FALSE}
            ELSE /\ camReqs' = Append(camReqs,
                       [r EXCEPT !.doc = IF id \in DOMAIN cameras THEN <<cameras[id]>> ELSE <<>>])
                 /\ alive' = alive
    /\ UNCHANGED <<faulty, cameras, writer, nextId, now, alertVars>>

\* lines 92-97 after the lookup: the signal is sent if a camera was found,
\* else findByIdAndDelete is called
DeleteCameraSignal(i) ==
    /\ alive
    /\ camReqs[i].kind = "delete" /\ camReqs[i].pc = "afterFind"
    /\ LET r == camReqs[i] IN
       IF r.doc # <<>>
          THEN camReqs' = [camReqs EXCEPT ![i] = Signalled(r)]
          ELSE camReqs' = [camReqs EXCEPT ![i].pc = "remove"]
    /\ UNCHANGED <<faulty, cameras, writer, nextId, now, alive, alertVars>>

\* lines 94-97: the detection service answers, fails or stays silent; once
\* the call is settled findByIdAndDelete is called
DeleteCameraSettled(i) ==
    /\ alive
    /\ camReqs[i].kind = "delete" /\ camReqs[i].pc = "awaitSignal"
    /\ \E sig \in SignalOutcomes :
         IF AxiosSettled(sig, SignalTimeout("delete"))
            THEN camReqs' = [camReqs EXCEPT ![i].pc = "remove", ![i].sig = sig]
            ELSE camReqs' = [camReqs EXCEPT ![i].pc = "hung", ![i].sig = sig]
    /\ UNCHANGED <<faulty, cameras, writer, nextId, now, alive, alertVars>>

\* line 97 at the store; nothing catches its rejection
DeleteCameraRemove(i) ==
    /\ alive
    /\ camReqs[i].kind = "delete" /\ camReqs[i].pc = "remove"
    /\ \E storeOk \in StoreOutcomes :
         IF ~storeOk
            THEN /\ camReqs' = [camReqs EXCEPT ![i].pc = "unanswered"]
                 /\ alive' \in {alive, FALSE}
                 /\ UNCHANGED <<cameras, writer>>
            ELSE /\ cameras' = RemoveById(cameras, camReqs[i].id)
                 /\ writer' = RemoveById(writer, camReqs[i].id)
                 /\ camReqs' = [camReqs EXCEPT ![i].pc = "afterRemove",
                                               ![i].nwrites = camReqs[i].nwrites + 1]
                 /\ alive' = alive
    /\ UNCHANGED <<faulty, nextId, now, alertVars>>

\* (mutant) a delete that found nothing answers 404
DeleteCameraRespNotFound(doc) ==
    IF doc = <<>> THEN Resp(404, "msg", <<>>, "Not found")
    ELSE Resp(200, "msg", <<>>, "Deleted")

\* line 98
DeleteCameraResp(doc) == Resp(200, "msg", <<>>, "Deleted")

DeleteCameraRespond(i) ==
    /\ alive
    /\ camReqs[i].kind = "delete" /\ camReqs[i].pc = "afterRemove"
    /\ camReqs' = [camReqs EXCEPT ![i].pc = "done",
                                  ![i].resp = DeleteCameraResp(camReqs[i].doc)]
    /\ UNCHANGED <<faulty, cameras, writer, nextId, now, alive, alertVars>>

\* Camera.find().sort({ addedAt: -1 }): every document, newest first;
\* documents of equal addedAt come in any order
CameraLists(cams) ==
    LET n == Cardinality(DOMAIN cams) IN
    { [k \in 1..n |-> cams[f[k]]] :
        f \in { g \in [1..n -> DOMAIN cams] :
                  \A a, b \in 1..n : a < b =>
                      /\ g[a] # g[b]
                      /\ cams[g[a]].addedAt >= cams[g[b]].addedAt } }

\* GET /api/cameras, line 19: the request is received and its query runs at
\* the store.  The handler has no try: nothing catches a rejection.
GetCameras ==
    /\ Receiving(camReqs)
    /\ LET r == CamReq("list", 0, Body(Absent, Absent, Absent, Absent), "found") IN
       \E storeOk \in StoreOutcomes :
         IF storeOk
            THEN /\ \E list \in CameraLists(cameras) :
                      camReqs' = Append(camReqs,
                                   [r EXCEPT !.resp = Resp(200, "list", list, "")])
                 /\ alive' = alive
            ELSE /\ camReqs' = Append(camReqs, [r EXCEPT !.pc = "unanswered"])
                 /\ alive' \in {alive, FALSE}
    /\ UNCHANGED <<faulty, cameras, writer, nextId, now, alertVars>>

\* line 20: the list is sent
GetCamerasRespond(i) ==
    /\ alive
    /\ camReqs[i].kind = "list" /\ camReqs[i].pc = "found"
    /\ camReqs' = [camReqs EXCEPT ![i].pc = "done"]
    /\ UNCHANGED <<faulty, cameras, writer, nextId, now, alive, alertVars>>

\* an entry of os.networkInterfaces().  An address is the sequence of its
\* dot-separated parts
Iface(family, internal, address) ==
    [family |-> family, internal |-> internal, address |-> address]

Loopback == Iface("IPv4", TRUE, <<127, 0, 0, 1>>)

\* what os.networkInterfaces() may return, flattened in the order of the two
\* loops of lines 8-9: only the loopback; the loopback and a LAN address; the
\* loopback and a link-local IPv6 address
Interfaces ==
    { <<Loopback>>,
      <<Loopback, Iface("IPv4", FALSE, <<192, 168, 1, 23>>)>>,
      <<Loopback, Iface("IPv6", FALSE, <<"fe80::1">>)>> }

\* (mutant) no fallback: undefined when no interface qualifies
GetLocalIpNoFallback(interfaces) ==
    LET ok == { k \in 1..Len(interfaces) :
                  interfaces[k].family = "IPv4" /\ ~interfaces[k].internal } IN
    IF ok = {} THEN <<>>
    ELSE interfaces[CHOOSE k \in ok : \A j \in ok : k <= j].address

\* getLocalIp, lines 6-16: the first IPv4 address that is not internal, or
\* '127.0.0.1'
GetLocalIp(interfaces) ==
    LET ok == { k \in 1..Len(interfaces) :
                  interfaces[k].family = "IPv4" /\ ~interfaces[k].internal } IN
    IF ok = {} THEN <<127, 0, 0, 1>>
    ELSE interfaces[CHOOSE k \in ok : \A j \in ok : k <= j].address

\* line 33: localIp.substring(0, localIp.lastIndexOf('.'))
Subnet(localIp) == SubSeq(localIp, 1, Len(localIp) - 1)

\* the loop of line 56: for (let i = 1; i < 255; i++)
FirstSuffix == 1
SuffixLimit == 255
Suffixes == FirstSuffix..(SuffixLimit - 1)

\* what becomes of a probe of port 8080 (tcpp.probe): the port answers, the
\* connection fails, or nothing comes back within tcp-ping's timeout
ProbeOutcomes == {"open", "refused", "timeout"}

\* checkIp(ip), lines 37-53: the promise of one probe, not yet resolved
CheckIp(ip) == [ip |-> ip, state |-> "pending"]

\* (mutant) the loop runs to 255 inclusive
PromisesInclusive(subnet) ==
    [n \in 1..(Cardinality(Suffixes) + 1) |->
        CheckIp(Append(subnet, FirstSuffix + n - 1))]

\* lines 55-58: promises, one checkIp(`${subnet}.${i}`) per i
Promises(subnet) ==
    [n \in 1..Cardinality(Suffixes) |->
        CheckIp(Append(subnet, FirstSuffix + n - 1))]

\* checkIp, lines 40-46: what a probe that found the port open resolves to
Device(ip) ==
    [ip |-> ip, name |-> <<"Mobile Device", ip>>, location |-> "Auto-Discovered",
     streamUrl |-> <<"http", ip, 8080, "video">>, status |-> "Stopped"]

\* lines 39-49: the callback of tcpp.probe resolves the promise, to a device
\* when available and to null otherwise (err is not looked at)
Resolved(probe, outcome) == [probe EXCEPT !.state = outcome]

\* (mutant) Promise.race: the first probe to resolve settles the await
AnySettled(probes) == \E k \in 1..Len(probes) : probes[k].state # "pending"

\* line 61: Promise.all(promises) is settled when every promise is
AllSettled(probes) == \A k \in 1..Len(probes) : probes[k].state # "pending"

IsOpen(probe) == probe.state = "open"

\* the devices of probes[lo..hi] that found the port open, in their order
\* (computed by halves)
RECURSIVE Filter(_, _, _)
Filter(probes, lo, hi) ==
    IF lo > hi THEN <<>>
    ELSE IF lo = hi
            THEN IF IsOpen(probes[lo]) THEN <<Device(probes[lo].ip)>> ELSE <<>>
            ELSE LET mid == (lo + hi) \div 2 IN
                 Filter(probes, lo, mid) \o Filter(probes, mid + 1, hi)

\* lines 61-62: results.filter(dev => dev !== null), the devices in the
\* order of the promises
FoundDevices(probes) == Filter(probes, 1, Len(probes))

\* POST /api/cameras/scan, lines 32-58: the subnet is taken from the host's
\* address and the probes are started; the handler awaits them all
ScanNetwork(interfaces) ==
    /\ Receiving(camReqs)
    /\ LET subnet == Subnet(GetLocalIp(interfaces)) IN
       camReqs' = Append(camReqs,
          [CamReq("scan", 0, Body(Absent, Absent, Absent, Absent), "probing")
             EXCEPT !.subnet = subnet, !.probes = Promises(subnet)])
    /\ UNCHANGED <<faulty, cameras, writer, nextId, now, alive, alertVars>>

\* lines 39-49: the probes of request i numbered in ks call back with the
\* same outcome, one after the other with nothing of the model in between
ProbeResolves(i, ks, outcome) ==
    /\ alive
    /\ camReqs[i].kind = "scan" /\ camReqs[i].pc = "probing"
    /\ ks # {}
    /\ ks \subseteq { k \in 1..Len(camReqs[i].probes) :
                        camReqs[i].probes[k].state = "pending" }
    /\ camReqs' = [camReqs EXCEPT ![i].probes =
          [k \in 1..Len(@) |-> IF k \in ks THEN Resolved(@[k], outcome) ELSE @[k]]]
    /\ UNCHANGED <<faulty, cameras, writer, nextId, now, alive, alertVars>>

\* lines 60-63: Promise.all has settled; the devices found are sent.  No
\* promise rejects, so the catch of line 64 is never entered.
ScanNetworkRespond(i) ==
    /\ alive
    /\ camReqs[i].kind = "scan" /\ camReqs[i].pc = "probing"
    /\ AllSettled(camReqs[i].probes)
    /\ camReqs' = [camReqs EXCEPT ![i].pc = "done",
          ![i].resp = Resp(200, "list", FoundDevices(camReqs[i].probes), "")]
    /\ UNCHANGED <<faulty, cameras, writer, nextId, now, alive, alertVars>>

\* the probes of one scan, grouped as they resolve in the model: the first
\* address, the second, and all the others together
ProbeGroups == { {1}, {2}, 3..(SuffixLimit - FirstSuffix) }

\* a single address answers, refuses or stays silent; the others all hold a
\* device or are all unused
GroupOutcomes(ks) ==
    IF Cardinality(ks) = 1 THEN ProbeOutcomes ELSE {"open", "timeout"}

NextScan ==
    \/ Len(camReqs) < MaxScans /\ \E interfaces \in Interfaces : ScanNetwork(interfaces)
    \/ \E i \in 1..Len(camReqs) :
          \/ \E ks \in ProbeGroups : \E outcome \in GroupOutcomes(ks) :
                ProbeResolves(i, ks, outcome)
          \/ ScanNetworkRespond(i)

\* bodies of POST /api/cameras as the dashboard sends them, and one that
\* carries an addedAt of its own, earlier than any stored
ListBodies ==
    { Body("Cam-3", Absent, Url, Absent),
      [name |-> "Cam-4", location |-> "Gate", streamUrl |-> Url,
       status |-> Absent, addedAt |-> -1] }

NextList ==
    \/ GetCameras
    \/ \E i \in 1..Len(camReqs) : GetCamerasRespond(i)

NextCam ==
    \/ \E body \in AddBodies : AddCamera(body)
    \/ \E id \in TargetIds, status \in StatusInputs : UpdateStatus(id, status)
    \/ \E id \in TargetIds : DeleteCamera(id)
    \/ \E i \in 1..Len(camReqs) :
          \/ AddCameraSave(i)
          \/ UpdateStatusSignal(i)
          \/ UpdateStatusRespond(i)
          \/ DeleteCameraSignal(i)
          \/ DeleteCameraSettled(i)
          \/ DeleteCameraRemove(i)
          \/ DeleteCameraRespond(i)

----------------------------------------------------------------------------
(* models/Report.js *)

\* the body of POST /api/webhook/detection.  confidence is a number in
\* hundredths (93 is 0.93); confidence and timestamp are <<>> when the key is
\* missing
Payload(cameraName, detectedClass, confidence, image, timestamp) ==
    [cameraName |-> cameraName, detectedClass |-> detectedClass,
     confidence |-> confidence, image |-> image, timestamp |-> timestamp]

Payloads ==
    { Payload("Cam-1", "person", <<93>>, "cam1_a.jpg", <<>>),
      Payload("Cam-2", "drone", <<120>>, Absent, <<0>>),
      Payload(Absent, "person", <<93>>, "cam1_a.jpg", <<>>),
      Payload("Cam-1", Absent, <<120>>, Absent, <<>>),
      Payload("Cam-2", "drone", <<>>, Absent, <<>>),
      Payload("", "person", <<93>>, Absent, <<>>) }

NoPayload == Payload(Absent, Absent, <<>>, Absent, <<>>)

\* the one payload of the runs that are about what follows a save
PagePayloads == { Payload("Cam-1", "person", <<93>>, "cam1_a.jpg", <<>>) }

\* `required: true` on a Number path
RequiredNumber(c) == c # <<>>

\* (mutant) the confidence is clamped to [0, 1]
ReportDocClamped(payload, id, t) ==
    [id |-> id,
     cameraName |-> payload.cameraName,
     detectedClass |-> payload.detectedClass,
     confidence |-> IF payload.confidence = <<>> THEN <<>>
                    ELSE IF payload.confidence[1] > 100 THEN <<100>>
                    ELSE IF payload.confidence[1] < 0 THEN <<0>>
                    ELSE payload.confidence,
     image |-> payload.image,
     timestamp |-> t]

\* (mutant) the timestamp is taken from the body when it has one
ReportDocOfBody(payload, id, t) ==
    [id |-> id,
     cameraName |-> payload.cameraName,
     detectedClass |-> payload.detectedClass,
     confidence |-> payload.confidence,
     image |-> payload.image,
     timestamp |-> IF payload.timestamp = <<>> THEN t ELSE payload.timestamp[1]]

\* new Report({ cameraName, detectedClass, confidence, image }) of
\* createReport: the four keys taken from the body, the timestamp defaulted
ReportDoc(payload, id, t) ==
    [id |-> id,
     cameraName |-> payload.cameraName,
     detectedClass |-> payload.detectedClass,
     confidence |-> payload.confidence,
     image |-> payload.image,
     timestamp |-> t]

\* (mutant) the confidence path is not required
ReportValidNoConfidence(doc) ==
    /\ Required(doc.cameraName)
    /\ Required(doc.detectedClass)

\* the validation newReport.save() runs before it inserts
ReportValid(doc) ==
    /\ Required(doc.cameraName)
    /\ Required(doc.detectedClass)
    /\ RequiredNumber(doc.confidence)

----------------------------------------------------------------------------
(* controllers/reportController.js and the io of server.js *)

\* .limit(100) of getReports
PageLimit == 100

AlertReq(kind, payload, pc) ==
    [kind |-> kind, payload |-> payload, pc |-> pc,
     doc |-> <<>>,        \* the document the handler built
     err |-> "none",      \* what made its save() reject: validation or store
     nemit |-> 0,         \* io.emit calls it has made
     heard |-> {},        \* the sockets connected when it emitted
     seen |-> {},         \* the ids in the collection when its query ran
     resp |-> NoResp]

Min(a, b) == IF a < b THEN a ELSE b

\* the newest and the oldest of a non-empty set of timestamps
Newest(stamps) ==
    -(CHOOSE m \in {-t : t \in stamps} : \A u \in stamps : u <= -m)
Oldest(stamps) == CHOOSE m \in stamps : \A u \in stamps : m <= u

\* the orders in which a set of documents may come
Orders(coll, ids) ==
    LET n == Cardinality(ids) IN
    { [k \in 1..n |-> coll[f[k]]] :
        f \in { g \in [1..n -> ids] : \A a, b \in 1..n : a # b => g[a] # g[b] } }

\* .sort({ timestamp: -1 }): the documents of a timestamp from lo to hi,
\* newest first; documents of equal timestamp come in any order
RECURSIVE Between(_, _, _)
Between(coll, lo, hi) ==
    IF lo = hi
       THEN Orders(coll, {id \in DOMAIN coll : coll[id].timestamp = lo})
       ELSE LET mid == lo + ((hi - lo) \div 2) IN
            { newer \o older : newer \in Between(coll, mid + 1, hi),
                               older \in Between(coll, lo, mid) }

NewestFirst(coll) ==
    LET stamps == {coll[id].timestamp : id \in DOMAIN coll} IN
    IF stamps = {} THEN {<<>>}
    ELSE Between(coll, Oldest(stamps), Newest(stamps))

\* (mutant) the query has no limit
SortedPagesUncapped(coll, n) == NewestFirst(coll)

\* Report.find().sort({ timestamp: -1 }).limit(n): the pages the store may
\* return
SortedPages(coll, n) ==
    { SubSeq(all, 1, Min(Len(all), n)) : all \in NewestFirst(coll) }

\* (mutant) the request body is emitted, which has no _id
NewAlertOfBody(doc) == [topic |-> "new_alert", data |-> [doc EXCEPT !.id = 0]]

\* the event io.emit('new_alert', newReport) sends
NewAlert(doc) == [topic |-> "new_alert", data |-> doc]

\* (mutant) every socket the server has ever known gets a copy
DeliverToAll(boxes, sockets, event) ==
    [o \in DOMAIN boxes |-> Append(boxes[o], event)]

\* (mutant) the newest event is put in front of those waiting
DeliverNewestFirst(boxes, sockets, event) ==
    [o \in DOMAIN boxes |-> IF o \in sockets THEN <<event>> \o boxes[o] ELSE boxes[o]]

\* (mutant) the sockets are served in turn, each once the one before it has
\* caught up
DeliverBehindSlow(boxes, sockets, event) ==
    [o \in DOMAIN boxes |->
        IF o \in sockets /\ \A p \in sockets : p < o => read[p] = Len(boxes[p])
           THEN Append(boxes[o], event) ELSE boxes[o]]

\* io.emit: one copy to every connected socket
Deliver(boxes, sockets, event) ==
    [o \in DOMAIN boxes |-> IF o \in sockets THEN Append(boxes[o], event) ELSE boxes[o]]

\* (mutant) save() is not awaited: the handler goes on before the insert
UnawaitedSave(coll, doc) == coll

\* await newReport.save() (line 26), fulfilled: the document is in the
\* collection when the handler goes on
AwaitedSave(coll, doc) == InsertDoc(coll, doc)

\* POST /api/webhook/detection, lines 15-26: the document is built and its
\* save() called
CreateReport(payload) ==
    /\ Receiving(alertReqs)
    /\ \E t \in {now, now + 1} :
         /\ now' = t
         /\ alertReqs' = Append(alertReqs,
               [AlertReq("create", payload, "save")
                  EXCEPT !.doc = <<ReportDoc(payload, nextId, t)>>])
    /\ nextId' = nextId + 1
    /\ UNCHANGED <<faulty, camVars, alive, alerts, connected, inbox, published, read, hook>>

\* line 26 at the store: validation, then the insert; a failure of either
\* goes to the catch of line 33
CreateReportSave(i) ==
    /\ alive
    /\ alertReqs[i].kind = "create" /\ alertReqs[i].pc = "save"
    /\ LET doc == alertReqs[i].doc[1] IN
       \E storeOk \in StoreOutcomes :
         IF ReportValid(doc) /\ storeOk
            THEN /\ alerts' = AwaitedSave(alerts, doc)
                 /\ alertReqs' = [alertReqs EXCEPT ![i].pc = "saved"]
            ELSE /\ alerts' = alerts
                 /\ alertReqs' = [alertReqs EXCEPT ![i].pc = "done",
                        ![i].err = IF ReportValid(doc) THEN "store" ELSE "validation",
                        ![i].resp = Resp(500, "err", <<>>, "Failed to save report")]
    /\ UNCHANGED <<faulty, camVars, nextId, now, alive, connected, inbox, published, read, hook>>

\* lines 29-32 after the save: the broadcast, then the 201
CreateReportEmit(i) ==
    /\ alive
    /\ alertReqs[i].kind = "create" /\ alertReqs[i].pc = "saved"
    /\ LET r == alertReqs[i]
           event == NewAlert(r.doc[1]) IN
       /\ published' = Append(published, event)
       /\ inbox' = Deliver(inbox, connected, event)
       /\ alertReqs' = [alertReqs EXCEPT ![i].pc = "done",
                                        ![i].nemit = r.nemit + 1,
                                        ![i].heard = connected,
                                        ![i].resp = Resp(201, "doc", r.doc, "")]
    /\ UNCHANGED <<faulty, camVars, nextId, now, alive, alerts, connected, read, hook>>

\* GET /api/reports, line 6: the request is received and its query runs at
\* the store; a failure goes to the catch of line 8
GetReports ==
    /\ Receiving(alertReqs)
    /\ \E storeOk \in StoreOutcomes :
         IF storeOk
            THEN \E page \in SortedPages(alerts, PageLimit) :
                   alertReqs' = Append(alertReqs,
                      [AlertReq("reports", NoPayload, "found")
                         EXCEPT !.seen = DOMAIN alerts,
                                !.resp = Resp(200, "list", page, "")])
            ELSE alertReqs' = Append(alertReqs,
                      [AlertReq("reports", NoPayload, "done")
                         EXCEPT !.resp = Resp(500, "err", <<>>, "")])
    /\ UNCHANGED <<faulty, camVars, nextId, now, alive, alerts, connected, inbox, published, read, hook>>

\* line 7: the page is sent
GetReportsRespond(i) ==
    /\ alive
    /\ alertReqs[i].kind = "reports" /\ alertReqs[i].pc = "found"
    /\ alertReqs' = [alertReqs EXCEPT ![i].pc = "done"]
    /\ UNCHANGED <<faulty, camVars, nextId, now, alive, alerts, connected, inbox, published, read, hook>>

\* a client connects to io (server.js line 30)
Connect(o) ==
    /\ alive
    /\ o \notin connected
    /\ connected' = connected \cup {o}
    /\ UNCHANGED <<faulty, camVars, nextId, now, alive, alerts, alertReqs, inbox, published, read, hook>>

\* a client goes away; the transport drops its socket
Disconnect(o) ==
    /\ alive
    /\ o \in connected
    /\ connected' = connected \ {o}
    /\ UNCHANGED <<faulty, camVars, nextId, now, alive, alerts, alertReqs, inbox, published, read, hook>>

\* the socket of services/socket, which the hook listens on
HookSocket == 1

\* hooks/useReports.js before it is mounted: useState([]), no listener
NoHook ==
    [pc |-> "unmounted",
     since |-> 0,         \* report requests the server had got when it mounted
     sub |-> FALSE,       \* its 'new_alert' listener is registered
     reports |-> <<>>,    \* the reports state
     got |-> {}]          \* the ids of the reports its listener was called with

\* lines 19-22: setReports(prev => [newReport, ...prev])
Handled(h, newReport) ==
    [h EXCEPT !.reports = <<newReport>> \o @,
              !.got = @ \cup {newReport.id}]

\* the effect of lines 15-23: fetchReports() sends GET /api/reports and the
\* listener is registered
HookMount ==
    /\ hook.pc = "unmounted"
    /\ hook' = [hook EXCEPT !.pc = "fetching", !.since = Len(alertReqs), !.sub = TRUE]
    /\ UNCHANGED <<faulty, camVars, nextId, now, alive, alerts, alertReqs,
                   connected, inbox, published, read>>

\* the hook's request at the server: the first GET /api/reports received
\* after the mount (0: not received yet)
HookRequest ==
    LET mine == { i \in (hook.since + 1)..Len(alertReqs) : alertReqs[i].kind = "reports" } IN
    IF mine = {} THEN 0 ELSE CHOOSE i \in mine : \A j \in mine : i <= j

\* lines 10-12: the response arrives: setReports(res.data), or on a failure
\* the catch, which logs
HookFetchResolves ==
    /\ hook.pc = "fetching"
    /\ HookRequest # 0
    /\ alertReqs[HookRequest].pc = "done"
    /\ LET res == alertReqs[HookRequest].resp IN
       hook' = IF res.code = 200
                  THEN [hook EXCEPT !.pc = "ready", !.reports = res.docs]
                  ELSE [hook EXCEPT !.pc = "failed"]
    /\ UNCHANGED <<faulty, camVars, nextId, now, alive, alerts, alertReqs,
                   connected, inbox, published, read>>

\* useReports, lines 19-22: the client's handler runs on the next event its
\* socket got; a slow client is behind, an unreachable one never runs it
Consume(o) ==
    /\ o \in connected
    /\ read[o] < Len(inbox[o])
    /\ read' = [read EXCEPT ![o] = read[o] + 1]
    /\ hook' = IF o = HookSocket /\ hook.sub
                  THEN Handled(hook, inbox[o][read[o] + 1].data)
                  ELSE hook
    /\ UNCHANGED <<faulty, camVars, nextId, now, alive, alerts, alertReqs,
                   connected, inbox, published>>

NextAlert ==
    \/ \E payload \in Payloads : CreateReport(payload)
    \/ GetReports
    \/ \E i \in 1..Len(alertReqs) :
          \/ CreateReportSave(i)
          \/ CreateReportEmit(i)
          \/ GetReportsRespond(i)
    \/ \E o \in DOMAIN inbox :
          \/ Connect(o)
          \/ Disconnect(o)

\* the listing over a store that holds a page or more
NextPage ==
    \/ \E payload \in PagePayloads : CreateReport(payload)
    \/ GetReports
    \/ \E i \in 1..Len(alertReqs) :
          \/ CreateReportSave(i)
          \/ CreateReportEmit(i)
          \/ GetReportsRespond(i)

\* the broadcast, with clients that handle their events when they get to it
NextFanout ==
    \/ \E payload \in PagePayloads : CreateReport(payload)
    \/ \E i \in 1..Len(alertReqs) :
          \/ CreateReportSave(i)
          \/ CreateReportEmit(i)
    \/ \E o \in DOMAIN inbox :
          \/ Connect(o)
          \/ Disconnect(o)
          \/ Consume(o)

----------------------------------------------------------------------------

NoAlerts == [k \in {} |-> 0]

InitRest ==
    /\ writer = [id \in DOMAIN cameras |-> 0]
    /\ nextId = Cardinality(DOMAIN cameras) + 1
    /\ alerts = NoAlerts
    /\ now = 0
    /\ alive = TRUE
    /\ faulty \in BOOLEAN
    /\ camReqs = <<>>
    /\ alertReqs = <<>>
    /\ connected = {}
    /\ inbox = [o \in 1..MaxObs |-> <<>>]
    /\ published = <<>>
    /\ read = [o \in 1..MaxObs |-> 0]
    /\ hook = NoHook

\* every store, and both kinds of run
Init == cameras \in InitStores /\ InitRest

\* the camera side while the store answers every operation
InitCam == Init /\ ~faulty

\* the camera side with store failures and malformed ids
InitCamFaulty == Init /\ faulty

\* the report side, over an empty Camera collection
InitAlert == cameras = NoCameras /\ InitRest /\ faulty

SpecCam == InitCam /\ [][NextCam]_vars

SpecCamFaulty == InitCamFaulty /\ [][NextCam]_vars

\* the camera side with its listing
NextCamAll == NextCam \/ NextList

SpecCamAll == InitCamFaulty /\ [][NextCamAll]_vars

SpecAlert == InitAlert /\ [][NextAlert]_vars

\* n reports kept from earlier runs, one a tick, the last a tick ago
StoredAlerts(n) ==
    [id \in 1..n |-> ReportDoc(Payload("Cam-1", "person", <<93>>, Absent, <<>>), id, id - n - 1)]

\* both controllers over one store: a camera and a report are there from
\* earlier runs
InitBoth ==
    /\ cameras = InsertDoc(NoCameras, CameraDoc(Body("Cam-1", Absent, Url, "Active"), 1, 0))
    /\ writer = [id \in DOMAIN cameras |-> 0]
    /\ alerts = StoredAlerts(1)
    /\ nextId = 2
    /\ now = 0
    /\ alive = TRUE
    /\ faulty = FALSE
    /\ camReqs = <<>>
    /\ alertReqs = <<>>
    /\ connected = {}
    /\ inbox = [o \in 1..MaxObs |-> <<>>]
    /\ published = <<>>
    /\ read = [o \in 1..MaxObs |-> 0]
    /\ hook = NoHook

\* the two controllers together receive one request more than one alone
RoomBoth == Len(camReqs) + Len(alertReqs) <= MaxReq

\* the operations on cameras, on that camera, and the ingestion
NextBoth ==
    \/ RoomBoth /\ \E body \in {Body("Cam-2", "Gate", Url, "Active")} : AddCamera(body)
    \/ RoomBoth /\ \E status \in {"Stopped"} : UpdateStatus(1, status)
    \/ RoomBoth /\ DeleteCamera(1)
    \/ RoomBoth /\ GetCameras
    \/ RoomBoth /\ \E interfaces \in Interfaces : ScanNetwork(interfaces)
    \/ \E i \in 1..Len(camReqs) :
          \/ AddCameraSave(i)
          \/ UpdateStatusSignal(i)
          \/ UpdateStatusRespond(i)
          \/ DeleteCameraSignal(i)
          \/ DeleteCameraSettled(i)
          \/ DeleteCameraRemove(i)
          \/ DeleteCameraRespond(i)
          \/ GetCamerasRespond(i)
          \/ \E ks \in {1..(SuffixLimit - FirstSuffix)}, outcome \in {"timeout"} :
                ProbeResolves(i, ks, outcome)
          \/ ScanNetworkRespond(i)
    \/ RoomBoth /\ \E payload \in PagePayloads : CreateReport(payload)
    \/ \E i \in 1..Len(alertReqs) :
          \/ CreateReportSave(i)
          \/ CreateReportEmit(i)

SpecBoth == InitBoth /\ [][NextBoth]_vars

\* the report side over a Report collection of a full page, or one more
InitPage ==
    /\ cameras = NoCameras
    /\ writer = NoCameras
    /\ alerts \in {StoredAlerts(PageLimit), StoredAlerts(PageLimit + 1)}
    /\ nextId = Cardinality(DOMAIN alerts) + 1
    /\ now = 0
    /\ alive = TRUE
    /\ faulty = TRUE
    /\ camReqs = <<>>
    /\ alertReqs = <<>>
    /\ connected = {}
    /\ inbox = [o \in 1..MaxObs |-> <<>>]
    /\ published = <<>>
    /\ read = [o \in 1..MaxObs |-> 0]
    /\ hook = NoHook

SpecPage == InitPage /\ [][NextPage]_vars

\* two clients, so that one can lag behind the other
FanoutSockets == {1, 2}

\* the report side with these two
InitFanout ==
    /\ cameras = NoCameras
    /\ writer = NoCameras
    /\ alerts = NoAlerts
    /\ nextId = 1
    /\ now = 0
    /\ alive = TRUE
    /\ faulty = FALSE
    /\ camReqs = <<>>
    /\ alertReqs = <<>>
    /\ connected = {}
    /\ inbox = [o \in FanoutSockets |-> <<>>]
    /\ published = <<>>
    /\ read = [o \in FanoutSockets |-> 0]
    /\ hook = NoHook

SpecFanout == InitFanout /\ [][NextFanout]_vars

\* registering cameras and listing them, while the store answers
NextListing ==
    \/ \E body \in ListBodies : AddCamera(body)
    \/ GetCameras
    \/ \E i \in 1..Len(camReqs) :
          \/ AddCameraSave(i)
          \/ GetCamerasRespond(i)

SpecListing == InitCam /\ [][NextListing]_vars

\* the page of a client that shows the reports: its hook, its socket, the
\* hook's fetch and the ingestions
NextHook ==
    \/ \E payload \in PagePayloads : CreateReport(payload)
    \/ hook.pc = "fetching" /\ HookRequest = 0 /\ GetReports
    \/ \E i \in 1..Len(alertReqs) :
          \/ CreateReportSave(i)
          \/ CreateReportEmit(i)
          \/ GetReportsRespond(i)
    \/ HookMount
    \/ HookFetchResolves
    \/ Consume(HookSocket)

\* no report stored; the client's socket is connected
InitHook ==
    /\ cameras = NoCameras
    /\ writer = NoCameras
    /\ alerts = NoAlerts
    /\ nextId = 1
    /\ now = 0
    /\ alive = TRUE
    /\ faulty = FALSE
    /\ camReqs = <<>>
    /\ alertReqs = <<>>
    /\ connected = {HookSocket}
    /\ inbox = [o \in {HookSocket} |-> <<>>]
    /\ published = <<>>
    /\ read = [o \in {HookSocket} |-> 0]
    /\ hook = NoHook

SpecHook == InitHook /\ [][NextHook]_vars

\* the discovery scan alone
InitScan == cameras = NoCameras /\ InitRest /\ ~faulty

SpecScan == InitScan /\ [][NextScan]_vars

Next == NextCamAll \/ NextAlert \/ NextFanout \/ NextBoth \/ NextScan \/ NextListing \/ NextHook

Spec == Init /\ [][Next]_vars

----------------------------------------------------------------------------
(* The camera registry: claims C1 to C7, under SpecCamFaulty *)

CamIdx == 1..Len(camReqs)

\* a status request that found its camera
UpdatedExisting(r) == r.kind = "update" /\ r.prev # <<>>

\* a delete request whose lookup found its camera
DeletingExisting(r) == r.kind = "delete" /\ r.doc # <<>>

\* a delete request whose lookup ran and found no camera
DeletingMissing(r) ==
    /\ r.kind = "delete" /\ r.doc = <<>> /\ WellFormed(r.id)
    /\ r.pc \in {"afterFind", "remove", "afterRemove", "done"}

\* C1: in every reachable state every stored camera has status 'Stopped' or
\* 'Active', whatever the bodies of the add, status and delete requests.
C1_StatusIsStoppedOrActive ==
    \A id \in DOMAIN cameras : cameras[id].status \in States

\* C2: a status request on an existing camera whose termination signal
\* fails (refused, non-2xx, or timed out) makes no second write (the state it
\* wrote is not rolled back) and answers 200 with the document its update
\* returned, the answer it gives when the signal succeeds; this holds for
\* every such request, also when another one on the same camera is in flight.
C2_SignalFailureIsHarmless ==
    \A i \in CamIdx :
        LET r == camReqs[i] IN
        UpdatedExisting(r) /\ r.nsig > 0 =>
            /\ r.nwrites = 1
            /\ r.pc = "done" => r.resp = Resp(200, "doc", r.doc, "")
            /\ r.doc[1].status = r.body.status

\* two status requests to 'Stopped' on one camera: the second wrote after
\* the first and has been answered 200 after its signal failed, while the
\* first is still awaiting its own signal
C2_Witness ==
    \E i, j \in CamIdx :
        /\ UpdatedExisting(camReqs[i]) /\ UpdatedExisting(camReqs[j])
        /\ camReqs[i].id = camReqs[j].id
        /\ camReqs[i].body.status = "Stopped" /\ camReqs[j].body.status = "Stopped"
        /\ camReqs[j].over = i
        /\ camReqs[i].pc = "awaitSignal"
        /\ camReqs[j].pc = "done" /\ camReqs[j].sig \in {"fail", "hang"}
        /\ camReqs[j].resp = Resp(200, "doc", camReqs[j].doc, "")
        /\ cameras[camReqs[j].id].status = "Stopped"

\* C3: a status request on an existing camera makes a termination call if
\* and only if the status asked for is 'Stopped', never more than one, with
\* the updated camera's name as cameraName, and only after its store write.
C3_OneSignalIffStopped ==
    \A i \in CamIdx :
        LET r == camReqs[i] IN
        UpdatedExisting(r) =>
            /\ r.nsig <= 1
            /\ r.nsig = 1 => /\ r.body.status = "Stopped"
                             /\ r.sigName = r.doc[1].name
                             /\ r.nwrites = 1
            /\ r.pc = "done" => (r.nsig = 1 <=> r.body.status = "Stopped")

\* a finished request to 'Stopped' whose one signal failed, and a finished
\* request to another status that made none
C3_Witness ==
    \E i, j \in CamIdx :
        /\ UpdatedExisting(camReqs[i]) /\ UpdatedExisting(camReqs[j])
        /\ camReqs[i].pc = "done" /\ camReqs[j].pc = "done"
        /\ camReqs[i].body.status = "Stopped" /\ camReqs[i].sig = "fail"
        /\ camReqs[i].nsig = 1
        /\ camReqs[j].body.status = "Active" /\ camReqs[j].nsig = 0

\* C4: a status request for 'Stopped' or 'Active' on an existing camera
\* changes the status path alone and changes nothing when the camera is
\* already in that state; the second of two such requests in a row (the
\* second overwriting the first's write) leaves the document the first left.
C4_SetStatusIdempotent ==
    /\ \A i \in CamIdx :
        LET r == camReqs[i] IN
        UpdatedExisting(r) /\ r.body.status \in States =>
            /\ r.doc[1] = [r.prev[1] EXCEPT !.status = r.body.status]
            /\ r.prev[1].status = r.body.status => r.doc = r.prev
            /\ r.over # 0 /\ UpdatedExisting(camReqs[r.over])
                 /\ camReqs[r.over].body.status = r.body.status
                 => r.doc = camReqs[r.over].doc
    /\ \A id \in DOMAIN cameras :
        writer[id] # 0 => cameras[id] = camReqs[writer[id]].doc[1]

\* two requests in a row for the same state on a camera that has a location
C4_Witness ==
    \E i, j \in CamIdx :
        /\ UpdatedExisting(camReqs[i]) /\ UpdatedExisting(camReqs[j])
        /\ camReqs[j].over = i
        /\ camReqs[i].body.status = "Stopped" /\ camReqs[j].body.status = "Stopped"
        /\ camReqs[i].prev[1].status = "Active"
        /\ camReqs[i].prev[1].location # Absent
        /\ camReqs[j].pc = "done"
        /\ camReqs[j].id \in DOMAIN cameras /\ writer[camReqs[j].id] = j

\* C5: on both paths that make the termination call, the call is settled
\* (answered, failed or timed out) whatever the detection service does, so
\* the request waiting for it goes on to its response.
C5_SignalAlwaysSettles ==
    \A i \in CamIdx : camReqs[i].pc # "hung"

\* C6: a delete request that found its camera makes its termination call
\* before its findByIdAndDelete, and once it has answered the camera is not
\* in the store, whether the call succeeded or failed.
C6_DeletedIsAbsent ==
    \A i \in CamIdx :
        LET r == camReqs[i] IN
        DeletingExisting(r) =>
            /\ r.nwrites > 0 => r.nsig = 1 /\ r.sig \in {"ok", "fail"}
            /\ r.pc \in {"afterRemove", "done"} =>
                   r.nwrites = 1 /\ r.id \notin DOMAIN cameras

\* a finished delete whose signal failed, and one whose signal succeeded
C6_Witness ==
    \E i, j \in CamIdx :
        /\ DeletingExisting(camReqs[i]) /\ DeletingExisting(camReqs[j])
        /\ camReqs[i].pc = "done" /\ camReqs[j].pc = "done"
        /\ camReqs[i].sig = "fail" /\ camReqs[j].sig = "ok"

\* the findByIdAndDelete of request i runs in this step
Removes(i) ==
    /\ i <= Len(camReqs)
    /\ camReqs[i].kind = "delete"
    /\ camReqs[i].pc = "remove" /\ camReqs'[i].pc = "afterRemove"

\* C7: a delete request for a well-formed id that has no camera makes no
\* termination call, still runs its findByIdAndDelete and answers
\* { message: "Deleted" }; a findByIdAndDelete changes no camera but the one
\* named, and nothing when there is none; two finished deletes of one id
\* got the same answer.
C7_DeleteOfMissingId ==
    /\ [](\A i \in CamIdx :
            LET r == camReqs[i] IN
            /\ DeletingMissing(r) =>
                 /\ r.nsig = 0
                 /\ r.pc \in {"afterRemove", "done"} => r.nwrites = 1
                 /\ r.pc = "done" => r.resp = Resp(200, "msg", <<>>, "Deleted")
            /\ \A j \in CamIdx :
                 /\ r.kind = "delete" /\ camReqs[j].kind = "delete"
                 /\ r.id = camReqs[j].id
                 /\ r.pc = "done" /\ camReqs[j].pc = "done"
                 => r.resp = camReqs[j].resp)
    /\ [][\A i \in CamIdx :
            Removes(i) =>
               /\ \A k \in (DOMAIN cameras) \ {camReqs[i].id} :
                      k \in DOMAIN cameras' /\ cameras'[k] = cameras[k]
               /\ camReqs[i].id \notin DOMAIN cameras => cameras' = cameras]_vars

\* a camera deleted twice: the second delete found nothing and finished,
\* with another camera in the store
C7_Witness ==
    \E i, j \in CamIdx :
        /\ i < j
        /\ DeletingExisting(camReqs[i]) /\ DeletingMissing(camReqs[j])
        /\ camReqs[i].id = camReqs[j].id
        /\ camReqs[i].pc = "done" /\ camReqs[j].pc = "done"
        /\ camReqs[j].resp = camReqs[i].resp
        /\ DOMAIN cameras # {}

----------------------------------------------------------------------------
(* The ingestion pipeline: claims C8 to C10, under SpecAlert *)

AlertIdx == 1..Len(alertReqs)

Ingestion(r) == r.kind = "create"

\* the 'new_alert' events published so far that carry the id
EventsOf(id) ==
    { k \in 1..Len(published) :
        published[k].topic = "new_alert" /\ published[k].data.id = id }

\* the payload holds the three required keys, in the schema's sense of
\* required (a string is required to be non-empty)
Present(payload) ==
    /\ Required(payload.cameraName)
    /\ Required(payload.detectedClass)
    /\ RequiredNumber(payload.confidence)

\* the payload does not hold one of the three required keys
Lacking(payload) ==
    \/ payload.cameraName = Absent
    \/ payload.detectedClass = Absent
    \/ payload.confidence = <<>>

SameFields(doc, payload) ==
    /\ doc.cameraName = payload.cameraName
    /\ doc.detectedClass = payload.detectedClass
    /\ doc.confidence = payload.confidence
    /\ doc.image = payload.image

\* C8: an ingestion answered 201 has published exactly one 'new_alert'
\* event, whose record is the stored one with its id; an ingestion that did
\* not persist (validation or the store failed) has published none.
C8_OneEventPerIngestion ==
    \A i \in AlertIdx :
        LET r == alertReqs[i]
            id == r.doc[1].id IN
        Ingestion(r) =>
            /\ Cardinality(EventsOf(id)) = r.nemit
            /\ r.resp.code = 201 =>
                 /\ r.nemit = 1
                 /\ id \in DOMAIN alerts
                 /\ \A k \in EventsOf(id) : published[k].data = alerts[id]
                 /\ r.resp.docs = <<alerts[id]>>
            /\ id \notin DOMAIN alerts => r.nemit = 0
            /\ r.pc = "done" /\ r.resp.code # 201 =>
                 r.resp.code = 500 /\ r.nemit = 0 /\ id \notin DOMAIN alerts

\* one ingestion answered 201 with its event out, and one of a valid payload
\* that the store refused, answered 500
C8_Witness ==
    \E i, j \in AlertIdx :
        /\ Ingestion(alertReqs[i]) /\ Ingestion(alertReqs[j])
        /\ alertReqs[i].resp.code = 201
        /\ Cardinality(EventsOf(alertReqs[i].doc[1].id)) = 1
        /\ alertReqs[j].pc = "done" /\ alertReqs[j].err = "store"
        /\ Len(published) = 1

\* C9: an ingestion whose payload lacks cameraName, detectedClass or
\* confidence stores no record and publishes no event, is answered 500, and
\* leaves the process running.
C9_LackingPayloadRejected ==
    \A i \in AlertIdx :
        LET r == alertReqs[i]
            id == r.doc[1].id IN
        Ingestion(r) /\ Lacking(r.payload) =>
            /\ id \notin DOMAIN alerts
            /\ r.nemit = 0 /\ EventsOf(id) = {}
            /\ r.pc \in {"save", "done"}
            /\ r.pc = "done" => r.resp.code = 500 /\ r.err = "validation"
            /\ alive

\* a payload without confidence was answered 500, and an ingestion received
\* after it was answered 201
C9_Witness ==
    \E i, j \in AlertIdx :
        /\ i < j
        /\ Ingestion(alertReqs[i]) /\ alertReqs[i].payload.confidence = <<>>
        /\ alertReqs[i].pc = "done" /\ alertReqs[i].resp.code = 500
        /\ Ingestion(alertReqs[j]) /\ alertReqs[j].resp.code = 201

\* C10: an ingestion whose payload holds cameraName, detectedClass and
\* confidence is never refused by validation, whatever the confidence; its
\* stored record, the record a later listing returns for it, and the event
\* every socket connected at its broadcast received all carry the payload's
\* cameraName, detectedClass, confidence and image unchanged; a listing
\* returns every record stored when its query ran (up to the page limit).
C10_IngestionRoundTrip ==
    \A i \in AlertIdx :
        LET r == alertReqs[i]
            id == r.doc[1].id IN
        Ingestion(r) /\ Present(r.payload) =>
            /\ r.err # "validation"
            /\ id \in DOMAIN alerts => SameFields(alerts[id], r.payload)
            /\ \A j \in AlertIdx :
                 LET q == alertReqs[j] IN
                 q.kind = "reports" /\ q.resp.code = 200 =>
                    /\ \A k \in 1..Len(q.resp.docs) :
                          q.resp.docs[k].id = id => SameFields(q.resp.docs[k], r.payload)
                    /\ id \in q.seen /\ Cardinality(q.seen) <= PageLimit =>
                          \E k \in 1..Len(q.resp.docs) : q.resp.docs[k].id = id
            /\ r.resp.code = 201 =>
                 \A o \in r.heard :
                    \E k \in 1..Len(inbox[o]) :
                       /\ inbox[o][k].data.id = id
                       /\ SameFields(inbox[o][k].data, r.payload)

\* a payload of confidence 1.2 was answered 201 with a socket connected, and
\* a finished listing returned its record
C10_Witness ==
    \E i, j \in AlertIdx :
        /\ Ingestion(alertReqs[i]) /\ alertReqs[i].payload.confidence = <<120>>
        /\ alertReqs[i].resp.code = 201
        /\ alertReqs[i].heard # {}
        /\ alertReqs[j].kind = "reports" /\ alertReqs[j].pc = "done"
        /\ \E k \in 1..Len(alertReqs[j].resp.docs) :
              /\ alertReqs[j].resp.docs[k].id = alertReqs[i].doc[1].id
              /\ alertReqs[j].resp.docs[k].confidence = <<120>>

----------------------------------------------------------------------------
(* The listing: claim C11, under SpecPage *)

Listing(q) == q.kind = "reports" /\ q.resp.code = 200

\* C11: the page a listing returns holds no more than 100 records, as many
\* as the store held when the query ran if that is fewer, each a stored
\* record and none twice, in non-increasing timestamp order, and no record
\* left out is newer than one returned.
C11_NewestFirstAtMostPageLimit ==
    \A j \in AlertIdx :
        LET q == alertReqs[j]
            docs == q.resp.docs
            returned == {docs[a].id : a \in 1..Len(docs)} IN
        Listing(q) =>
            /\ Len(docs) <= PageLimit
            /\ Len(docs) = Min(Cardinality(q.seen), PageLimit)
            /\ \A a, b \in 1..Len(docs) : a < b =>
                   /\ docs[a].timestamp >= docs[b].timestamp
                   /\ docs[a].id # docs[b].id
            /\ \A a \in 1..Len(docs) :
                   docs[a].id \in q.seen /\ docs[a] = alerts[docs[a].id]
            /\ \A id \in q.seen \ returned :
                   \A a \in 1..Len(docs) : alerts[id].timestamp <= docs[a].timestamp

\* a listing over 102 records, the newest ingested in this run, returned 100
\* that begin with that one
C11_Witness ==
    \E j \in AlertIdx :
        LET q == alertReqs[j] IN
        /\ Listing(q) /\ q.pc = "done"
        /\ Cardinality(q.seen) = PageLimit + 2
        /\ Len(q.resp.docs) = PageLimit
        /\ \E i \in AlertIdx :
              Ingestion(alertReqs[i]) /\ q.resp.docs[1].id = alertReqs[i].doc[1].id

----------------------------------------------------------------------------
(* The ingestion pipeline: claim C12, under SpecAlert *)

\* request i is received in this step
Arrives(i) == Len(alertReqs) = i - 1 /\ Len(alertReqs') = i

\* C12: the timestamp of the document an ingestion builds is the value
\* Date.now() returned while it was built, whatever the payload holds under
\* timestamp, and it is the timestamp of the record stored.
C12_ServerAssignedTimestamp ==
    /\ [](\A i \in AlertIdx :
            LET r == alertReqs[i] IN
            Ingestion(r) /\ r.doc[1].id \in DOMAIN alerts =>
                /\ alerts[r.doc[1].id].timestamp = r.doc[1].timestamp
                /\ alerts[r.doc[1].id].timestamp <= now)
    /\ [][\A i \in 1..MaxReq :
            Arrives(i) /\ Ingestion(alertReqs'[i]) =>
                alertReqs'[i].doc[1].timestamp = now']_vars

\* a payload with timestamp 0 is stored with the later time of its ingestion
C12_Witness ==
    \E i \in AlertIdx :
        LET r == alertReqs[i] IN
        /\ Ingestion(r) /\ r.payload.timestamp = <<0>>
        /\ r.resp.code = 201
        /\ alerts[r.doc[1].id].timestamp > 0

----------------------------------------------------------------------------
(* The broadcast: claims C13 to C15, under SpecFanout *)

\* the copies of the event of record id that socket o was sent
Copies(o, id) ==
    Cardinality({k \in 1..Len(inbox[o]) : inbox[o][k].data.id = id})

\* the place of the event of record id among the events published
Pos(id) == CHOOSE k \in 1..Len(published) : published[k].data.id = id

\* C13: of the event an ingestion published, every socket connected when
\* io.emit ran was sent exactly one copy, the event as published, and a
\* socket that was not connected then, whenever it connects, none.
C13_OneCopyToConnectedOnly ==
    \A i \in AlertIdx :
        LET r == alertReqs[i]
            id == r.doc[1].id IN
        Ingestion(r) =>
            \A o \in DOMAIN inbox :
                /\ Copies(o, id) = IF r.nemit = 1 /\ o \in r.heard THEN 1 ELSE 0
                /\ \A k \in 1..Len(inbox[o]) :
                      inbox[o][k].data.id = id => inbox[o][k] = published[Pos(id)]

\* two events are out: one socket was there for both and has both, another
\* connected in between and has the second alone
C13_Witness ==
    \E i, j \in AlertIdx, o, p \in connected :
        LET a == alertReqs[i].doc[1].id
            b == alertReqs[j].doc[1].id IN
        /\ Ingestion(alertReqs[i]) /\ Ingestion(alertReqs[j])
        /\ alertReqs[i].nemit = 1 /\ alertReqs[j].nemit = 1
        /\ Pos(a) < Pos(b)
        /\ alertReqs[i].heard = {o} /\ alertReqs[j].heard = {o, p} /\ o # p
        /\ Copies(o, a) = 1 /\ Copies(o, b) = 1
        /\ Copies(p, a) = 0 /\ Copies(p, b) = 1

\* C14: every socket was sent its events in the order they were published,
\* which is the order of the io.emit calls and not that of the requests.
C14_DeliveryInPublishOrder ==
    \A o \in DOMAIN inbox :
        \A a, b \in 1..Len(inbox[o]) :
            a < b => Pos(inbox[o][a].data.id) < Pos(inbox[o][b].data.id)

\* the ingestion received second published first, and a socket connected
\* for both was sent the two in that order
C14_Witness ==
    \E i, j \in AlertIdx, o \in connected :
        /\ i < j
        /\ Ingestion(alertReqs[i]) /\ Ingestion(alertReqs[j])
        /\ alertReqs[i].nemit = 1 /\ alertReqs[j].nemit = 1
        /\ Pos(alertReqs[j].doc[1].id) < Pos(alertReqs[i].doc[1].id)
        /\ o \in alertReqs[i].heard /\ o \in alertReqs[j].heard
        /\ inbox[o] = published

\* C15: an ingestion that has saved its record can always go on to publish
\* and answer, whatever the sockets have or have not handled; once it has,
\* it is answered 201 and every socket then connected was sent the event,
\* also when another socket is behind, unreachable or gone.
C15_ObserversIsolated ==
    \A i \in AlertIdx :
        LET r == alertReqs[i] IN
        Ingestion(r) =>
            /\ alive /\ r.pc = "saved" => ENABLED CreateReportEmit(i)
            /\ r.nemit = 1 =>
                  /\ r.pc = "done" /\ r.resp = Resp(201, "doc", r.doc, "")
                  /\ \A o \in r.heard :
                        \E k \in 1..Len(inbox[o]) : inbox[o][k] = NewAlert(r.doc[1])

\* a second event went out, with a 201, to a socket that had not handled
\* the first and still has handled neither, and to one that has handled both
C15_Witness ==
    \E i, j \in AlertIdx, o, p \in DOMAIN inbox :
        /\ i # j /\ o # p
        /\ Ingestion(alertReqs[i]) /\ Ingestion(alertReqs[j])
        /\ alertReqs[i].resp.code = 201 /\ alertReqs[j].resp.code = 201
        /\ alertReqs[i].heard = {o, p} /\ alertReqs[j].heard = {o, p}
        /\ read[o] = 0 /\ Len(inbox[o]) = 2
        /\ read[p] = 2

----------------------------------------------------------------------------
(* The camera registry: claim C16, under SpecCam *)

\* two status requests that found the same camera and ask for the two
\* opposite states
Opposite(r, q) ==
    /\ UpdatedExisting(r) /\ UpdatedExisting(q)
    /\ r.id = q.id
    /\ {r.body.status, q.body.status} = States

\* C16: of two status requests for opposite states on one camera, the one
\* whose write came last at the store decides the stored state, which is
\* the state it asked for; neither request is ever stuck (each can take its
\* next step until it has answered), and each answers 200 with the camera
\* record as its own update returned it.
C16_LastWriteWins ==
    \A i, j \in CamIdx :
        LET r == camReqs[i]
            q == camReqs[j] IN
        Opposite(r, q) =>
            /\ r.id \in DOMAIN cameras /\ writer[r.id] = j =>
                   /\ cameras[r.id].status = q.body.status
                   /\ cameras[r.id].status # r.body.status
            /\ r.pc \in {"afterWrite", "awaitSignal", "done"}
            /\ r.pc = "afterWrite" => ENABLED UpdateStatusSignal(i)
            /\ r.pc = "awaitSignal" => ENABLED UpdateStatusRespond(i)
            /\ r.pc = "done" =>
                   /\ r.resp = Resp(200, "doc", r.doc, "")
                   /\ r.doc[1].id = r.id /\ r.doc[1].status = r.body.status

\* the request for 'Active' wrote over the write of the request for
\* 'Stopped' and has answered while that one still awaits its signal: the
\* camera is 'Active'
C16_Witness ==
    \E i, j \in CamIdx :
        /\ Opposite(camReqs[i], camReqs[j])
        /\ camReqs[i].body.status = "Stopped" /\ camReqs[i].pc = "awaitSignal"
        /\ camReqs[j].over = i /\ camReqs[j].pc = "done"
        /\ writer[camReqs[j].id] = j
        /\ cameras[camReqs[j].id].status = "Active"

----------------------------------------------------------------------------
(* Store failures: claim C17, under SpecCamAll *)

\* C17: no camera request is left without a response: whatever the store
\* does, the handler answers (with a failure response when the store
\* failed), and the process stays up to answer the others.
C17_StoreFailureAnswered ==
    /\ alive
    /\ \A i \in CamIdx : camReqs[i].pc # "unanswered"

----------------------------------------------------------------------------
(* The camera registry: claims C18 and C19, under SpecCamFaulty *)

\* the body holds a name and a streamUrl, in the schema's sense of required
Complete(body) == Required(body.name) /\ Required(body.streamUrl)

\* C18: an add request inserts a record only when its body holds a name and
\* a streamUrl; the record has the body's name, location and streamUrl, the
\* body's status if it has one and 'Stopped' if not, and is what the caller
\* is answered with; a body without a name or without a streamUrl is
\* answered with the failure and no record of it is ever in the store.
C18_AddCameraValidates ==
    \A i \in CamIdx :
        LET r == camReqs[i]
            doc == r.doc[1] IN
        r.kind = "add" =>
            /\ r.nwrites <= 1
            /\ r.nwrites = 1 =>
                  /\ Complete(r.body)
                  /\ doc.name = r.body.name /\ doc.streamUrl = r.body.streamUrl
                  /\ doc.location = r.body.location
                  /\ doc.status = IF r.body.status = Absent THEN "Stopped"
                                  ELSE r.body.status
                  /\ r.resp = Resp(200, "doc", r.doc, "")
                  /\ r.id \in DOMAIN cameras /\ writer[r.id] = i =>
                        cameras[r.id] = doc
            /\ r.nwrites = 0 => r.id \notin DOMAIN cameras
            /\ ~Complete(r.body) =>
                  /\ r.nwrites = 0
                  /\ r.pc = "done" => r.resp = Resp(500, "err", <<>>, "")
            /\ r.pc = "done" /\ r.resp.code = 200 => r.nwrites = 1

\* a body without a status was stored as a 'Stopped' camera, and a body
\* without a streamUrl was refused
C18_Witness ==
    \E i, j \in CamIdx :
        /\ camReqs[i].kind = "add" /\ camReqs[j].kind = "add"
        /\ camReqs[i].body.status = Absent /\ camReqs[i].pc = "done"
        /\ camReqs[i].id \in DOMAIN cameras
        /\ cameras[camReqs[i].id].status = "Stopped"
        /\ camReqs[j].body.streamUrl = Absent /\ camReqs[j].pc = "done"
        /\ camReqs[j].resp.code = 500
        /\ camReqs[j].id \notin DOMAIN cameras

\* C19: every stored camera has a non-empty name and a non-empty streamUrl,
\* and a status update leaves the name and the streamUrl of the record it
\* updates as they were.
C19_NameAndUrlNeverEmpty ==
    /\ \A id \in DOMAIN cameras :
          Required(cameras[id].name) /\ Required(cameras[id].streamUrl)
    /\ \A i \in CamIdx :
          LET r == camReqs[i] IN
          UpdatedExisting(r) =>
              /\ r.doc[1].name = r.prev[1].name
              /\ r.doc[1].streamUrl = r.prev[1].streamUrl
              /\ Required(r.doc[1].name) /\ Required(r.doc[1].streamUrl)

\* a camera added in this run and then given another status is in the store
C19_Witness ==
    \E i, j \in CamIdx :
        /\ camReqs[i].kind = "add" /\ camReqs[i].pc = "done"
        /\ UpdatedExisting(camReqs[j]) /\ camReqs[j].pc = "done"
        /\ camReqs[j].id = camReqs[i].id
        /\ camReqs[j].prev[1].status # camReqs[j].doc[1].status
        /\ camReqs[i].id \in DOMAIN cameras /\ writer[camReqs[i].id] = j

----------------------------------------------------------------------------
(* The Report collection: claim C20, under SpecBoth *)

\* the save() of ingestion i inserts its record in this step
Saves(i) ==
    /\ i <= Len(alertReqs)
    /\ Ingestion(alertReqs[i])
    /\ alertReqs[i].pc = "save" /\ alertReqs'[i].pc = "saved"
    /\ alerts' = InsertDoc(alerts, alertReqs[i].doc[1])

\* C20: no step of any handler (add, status, delete, scan or list of
\* cameras, ingestion) changes or removes a stored report,
\* and the only step that adds one is the save() of an ingestion, which adds
\* the one record that ingestion built.
C20_AlertsOnlyGrow ==
    [][/\ \A id \in DOMAIN alerts :
             id \in DOMAIN alerts' /\ alerts'[id] = alerts[id]
       /\ alerts' # alerts => \E i \in 1..MaxReq : Saves(i)]_vars

\* the report of an earlier run is as it was and one more is stored, after
\* a camera was stopped and then deleted
C20_Witness ==
    /\ 1 \in DOMAIN alerts /\ alerts[1] = StoredAlerts(1)[1]
    /\ Cardinality(DOMAIN alerts) = 2
    /\ \E i, j \in CamIdx :
          /\ camReqs[i].kind = "update" /\ camReqs[i].pc = "done"
          /\ camReqs[j].kind = "delete" /\ camReqs[j].pc = "done"
          /\ camReqs[j].doc # <<>> /\ camReqs[j].doc[1].status = "Stopped"
    /\ cameras = NoCameras

----------------------------------------------------------------------------
(* The discovery scan: claims C21 to C23, under SpecScan *)

ScanIdx == { i \in 1..Len(camReqs) : camReqs[i].kind = "scan" }

\* the addresses a scan has probed, and those whose probe found the port open
ProbedBy(r) == { r.probes[k].ip : k \in 1..Len(r.probes) }
AnsweredTo(r) == { r.probes[k].ip : k \in { j \in 1..Len(r.probes) : r.probes[j].state = "open" } }
Returned(r) == { r.resp.docs[a].ip : a \in 1..Len(r.resp.docs) }

\* C21: a scan probes each address prefix.1 to prefix.254 of its subnet
\* exactly once (254 probes, over exactly these 254 addresses), and its
\* result holds only addresses that answered, no address twice, and at most
\* 254 entries.
C21_EachAddressOnceOnlyResponders ==
    \A i \in ScanIdx :
       LET r == camReqs[i] IN
       /\ Len(r.probes) = 254
       /\ ProbedBy(r) = { Append(r.subnet, h) : h \in 1..254 }
       /\ r.pc = "done" =>
             /\ Returned(r) \subseteq AnsweredTo(r)
             /\ Cardinality(Returned(r)) = Len(r.resp.docs)
             /\ Len(r.resp.docs) <= 254

\* a scan has answered with 253 devices: every address but the first, whose
\* probe failed
C21_Witness ==
    \E i \in ScanIdx :
       /\ camReqs[i].pc = "done"
       /\ camReqs[i].probes[1].state = "refused"
       /\ Len(camReqs[i].resp.docs) = 253

\* C22: a scan has answered only when none of its 254 probes is pending; its
\* answer is then a 200 with exactly the devices of the probes that found
\* the port open, a failed or timed-out probe adding nothing, whatever the
\* mix of outcomes.
C22_AnswersAfterAllProbes ==
    \A i \in ScanIdx :
       LET r == camReqs[i] IN
       r.resp # NoResp =>
          /\ \A k \in 1..Len(r.probes) : r.probes[k].state \in ProbeOutcomes
          /\ r.resp.code = 200
          /\ Returned(r) = AnsweredTo(r)
          /\ Len(r.resp.docs) = Cardinality(AnsweredTo(r))

\* a scan one of whose probes failed, one found a device and the others
\* timed out has answered with that one device
C22_Witness ==
    \E i \in ScanIdx :
       LET r == camReqs[i] IN
       /\ r.pc = "done"
       /\ r.probes[1].state = "refused"
       /\ r.probes[2].state = "open"
       /\ r.probes[3].state = "timeout"
       /\ r.resp.code = 200
       /\ Len(r.resp.docs) = 1

\* no interface of the host has an IPv4 address that is not internal
NoExternalIPv4(interfaces) ==
    \A k \in 1..Len(interfaces) :
       interfaces[k].family # "IPv4" \/ interfaces[k].internal

\* C23: a scan received while the host has no non-internal IPv4 address is
\* not aborted: it goes on to probe, with 127.0.0 as its subnet, the
\* addresses 127.0.0.1 to 127.0.0.254.
C23_LoopbackFallback ==
    [][\A interfaces \in Interfaces :
          NoExternalIPv4(interfaces) /\ ScanNetwork(interfaces) =>
             LET r == camReqs'[Len(camReqs')] IN
             /\ r.pc = "probing"
             /\ r.subnet = <<127, 0, 0>>
             /\ ProbedBy(r) = { <<127, 0, 0, h>> : h \in 1..254 }]_vars

\* a scan over the loopback subnet has been answered
C23_Witness ==
    \E i \in ScanIdx :
       /\ camReqs[i].subnet = <<127, 0, 0>>
       /\ camReqs[i].pc = "done"
       /\ camReqs[i].resp.code = 200

----------------------------------------------------------------------------
(* The listing of cameras: claim C24, under SpecListing *)

\* when a stored camera was created: the time its document was constructed
\* in this run, or the addedAt an earlier run gave it
CreatedAt(doc) ==
    IF \E j \in CamIdx : camReqs[j].kind = "add" /\ camReqs[j].id = doc.id
       THEN camReqs[CHOOSE j \in CamIdx :
                       camReqs[j].kind = "add" /\ camReqs[j].id = doc.id].builtAt
       ELSE doc.addedAt

\* the request received in this step is a listing that the store answered
Lists ==
    /\ Len(camReqs') = Len(camReqs) + 1
    /\ camReqs'[Len(camReqs')].kind = "list"
    /\ camReqs'[Len(camReqs')].resp # NoResp

\* C24: the answer to a listing holds every stored camera, each once, and a
\* camera never comes before one created later than it.
C24_ListsAllNewestCreatedFirst ==
    [][Lists =>
         LET docs == camReqs'[Len(camReqs')].resp.docs IN
         /\ { docs[k] : k \in 1..Len(docs) } = { cameras[id] : id \in DOMAIN cameras }
         /\ Len(docs) = Cardinality(DOMAIN cameras)
         /\ \A a, b \in 1..Len(docs) :
               a < b => CreatedAt(docs[a]) >= CreatedAt(docs[b])]_vars

----------------------------------------------------------------------------
(* Signals and concurrent status requests: claim C25, under SpecCam *)

\* status request i makes its POST /terminate in this step
Sends(i) ==
    /\ camReqs[i].kind = "update"
    /\ camReqs'[i].nsig = camReqs[i].nsig + 1

\* C25 as claimed: whenever a status request sends its signal, the camera is
\* stored and its stored status is 'Stopped'.
C25_SignalOnlyWhileStopped ==
    [][\A i \in CamIdx :
          Sends(i) => /\ camReqs[i].id \in DOMAIN cameras
                      /\ cameras[camReqs[i].id].status = "Stopped"]_vars

\* C25 as amended: a status request sends a signal only if it asked for
\* 'Stopped' and only after its own write stored 'Stopped'; the camera's
\* stored status is then 'Stopped' unless another request has written or
\* deleted the camera since.
C25_SignalAfterOwnStoppedWrite ==
    [][\A i \in CamIdx :
          Sends(i) =>
             LET r == camReqs[i] IN
             /\ r.body.status = "Stopped"
             /\ r.nwrites = 1
             /\ r.doc[1].status = "Stopped"
             /\ (r.id \in DOMAIN cameras /\ writer[r.id] = i)
                   => cameras[r.id].status = "Stopped"]_vars

\* a request for 'Stopped' has written and is about to send its signal
\* (line 73); a request for 'Active' has written over it and the camera is
\* 'Active'
C25_Witness ==
    \E i, j \in CamIdx :
        /\ alive
        /\ camReqs[i].kind = "update" /\ camReqs[i].pc = "afterWrite"
        /\ camReqs[i].body.status = "Stopped" /\ camReqs[i].doc # <<>>
        /\ camReqs[j].kind = "update" /\ camReqs[j].over = i
        /\ camReqs[j].body.status = "Active"
        /\ writer[camReqs[i].id] = j
        /\ cameras[camReqs[i].id].status = "Active"

----------------------------------------------------------------------------
(* The correlation key: claim C26, under SpecCam *)

\* the stored cameras of a name
Named(name) == { id \in DOMAIN cameras : cameras[id].name = name }

\* C26: whenever a status or delete request sends its signal, the
\* cameraName the signal carries is the name of at most one stored camera.
C26_SignalKeyNamesOneCamera ==
    [][\A i \in CamIdx :
          camReqs'[i].nsig = camReqs[i].nsig + 1 =>
             Cardinality(Named(camReqs'[i].sigName)) <= 1]_vars

----------------------------------------------------------------------------
(* A status request for a camera that is not stored: claim C27, under SpecCam *)

\* a status request whose update found no camera
UpdatedMissing(r) == r.kind = "update" /\ r.nwrites = 0

\* C27: a status request for an id that no stored camera has leaves the
\* store as it was, sends no signal, and is answered with a failure.
C27_MissingIdFails ==
    /\ [][\A id \in TargetIds, status \in StatusInputs :
             (id \notin DOMAIN cameras /\ UpdateStatus(id, status))
                => cameras' = cameras]_vars
    /\ [](\A i \in CamIdx :
             UpdatedMissing(camReqs[i]) =>
                /\ camReqs[i].nsig = 0
                /\ camReqs[i].pc = "done" => camReqs[i].resp.code >= 400)

----------------------------------------------------------------------------
(* Deleted cameras stay deleted: claim C28, under SpecCam *)

\* a delete request has removed the camera of this id
Deleted(id) ==
    \E i \in CamIdx :
       /\ DeletingExisting(camReqs[i]) /\ camReqs[i].id = id
       /\ camReqs[i].pc \in {"afterRemove", "done"}

\* C28: once a delete request has removed a camera, no step, of a status
\* request in flight or of a later one, puts a camera of that id in the
\* store again.
C28_DeletedNeverResurrected ==
    [][\A id \in 1..nextId :
          (Deleted(id) /\ id \notin DOMAIN cameras) => id \notin DOMAIN cameras']_vars

\* a camera was removed, and a status request for it that ran afterwards,
\* finding nothing, has answered: the camera is not in the store
C28_Witness ==
    \E i, j \in CamIdx :
        /\ DeletingExisting(camReqs[i]) /\ camReqs[i].pc = "done"
        /\ UpdatedMissing(camReqs[j]) /\ camReqs[j].id = camReqs[i].id
        /\ camReqs[j].pc = "done"
        /\ camReqs[i].id \notin DOMAIN cameras

----------------------------------------------------------------------------
(* Save, then publish, then answer: claim C29, under SpecAlert *)

\* the events the server has sent to socket o that carry the id
SentTo(o, id) == { k \in 1..Len(inbox[o]) : inbox[o][k].data.id = id }

\* C29: every 'new_alert' event sent to an observer carries a record that is
\* in the store, as stored; an ingestion publishes nothing and answers
\* nothing while its save is pending, has published once it answers 201, and
\* when it answers a failure no observer has been sent an event of its record.
C29_PersistedThenPublishedThenAnswered ==
    /\ \A o \in DOMAIN inbox : \A k \in 1..Len(inbox[o]) :
          LET data == inbox[o][k].data IN
          data.id \in DOMAIN alerts /\ alerts[data.id] = data
    /\ \A i \in AlertIdx :
          LET r == alertReqs[i] IN
          Ingestion(r) =>
             /\ r.pc = "save" => r.nemit = 0 /\ r.resp = NoResp
             /\ r.nemit > 0 => r.doc[1].id \in DOMAIN alerts
             /\ r.resp.code = 201 => r.nemit = 1
             /\ r.resp.code >= 400 =>
                   /\ r.nemit = 0
                   /\ \A o \in DOMAIN inbox : SentTo(o, r.doc[1].id) = {}

\* an observer has been sent the event of a stored record whose ingestion
\* was answered 201, and another ingestion, refused by the store, was
\* answered 500 with no event
C29_Witness ==
    \E i, j \in AlertIdx : \E o \in DOMAIN inbox :
        /\ Ingestion(alertReqs[i]) /\ alertReqs[i].resp.code = 201
        /\ SentTo(o, alertReqs[i].doc[1].id) # {}
        /\ Ingestion(alertReqs[j]) /\ alertReqs[j].resp.code = 500
        /\ Len(inbox[o]) = 1

----------------------------------------------------------------------------
(* The client's list of reports: claim C30, under SpecHook *)

\* the ids of the reports in the hook's list
Shown == { hook.reports[k].id : k \in 1..Len(hook.reports) }

\* C30: once the hook's first fetch has resolved, every report its listener
\* was called with is in its list, and no report is in the list twice.
C30_NoAlertLostOrTwice ==
    hook.pc \in {"ready", "failed"} =>
       /\ hook.got \subseteq Shown
       /\ Cardinality(Shown) = Len(hook.reports)

====
